---------------------------- MODULE Spec2Model ----------------------------
(*
  A state-machine model of the ViStreamASR command-line utilities:

    speech_to_text.py   the SpeechToText orchestrator (initialize,
                        transcribe_file, transcribe_microphone,
                        transcribe_live) and the mode dispatcher main()
    test_microphone.py  the microphone level diagnostic test_microphone()

  Three specifications share the variables:
    Spec      any sequence of orchestrator operations on one SpeechToText
              object (the object used as a library)
    MainSpec  one run of main(): flag dispatch, the interactive menu and the
              operation it calls
    MicSpec   one run of test_microphone()

  The external collaborators (the streaming ASR engine, sounddevice, PyAudio,
  the file system, the console input) are inputs: every outcome they can
  produce is drawn with \E inside the action that calls them.
*)
EXTENDS Integers, Sequences, FiniteSets, TLC

VARIABLES
  \* ---- SpeechToText object and the operation in progress
  asr,             \* self.asr: "None" or "engine"
  init_called,     \* the current operation called initialize()
  constructs,      \* number of successful StreamingASR(...) constructions
  calls,           \* number of orchestrator operations invoked so far
  op,              \* operation in progress or last finished
  pc,              \* "idle" | "iter" (inside the for loop) | "done"
  path_exists,     \* os.path.exists(audio_file) of the current transcribe_file
  output_file,     \* the output_file argument: "None" or a path
  stream_started,  \* stream_from_file / stream_from_microphone was called
  consumed,        \* events the for loop has received, in emission order
  final_segments,  \* the local list final_segments
  ret,             \* what the operation returned
  raised,          \* exception that left the operation: "none" or its class
  exc,             \* where an exception arose during the operation
  write_failed,    \* the save step's open()/write raised
  written,         \* files written by the operation: set of [name, content]
  \* ---- main()
  mainPc,          \* "off" | "start" | "menu" | "running" | "exit" | "crashed"
  args,            \* the parsed flags [file, mic, live]
  prompts,         \* number of times the menu asked "Enter choice (1-3)"
  choice,          \* the menu choice entered ("" before any)
  \* ---- test_microphone()
  micPc,           \* "off" | "start" | "enum" | "open" | "loop" | "pause" |
                   \* "finally" | "returned" | "propagated"
  handle,          \* p: "none" before PyAudio() returned, else "created"
  stream,          \* the local `stream`: "unbound" or "open"
  exitKind,        \* how the outer try was left: "none" | "break" | "error"
                   \* (caught by except Exception) | "interrupt" (uncaught)
  cleanup,         \* which release calls the finally block made
  micRet,          \* "none" | "True" | "False"
  frame,           \* the frame last read: n samples of value v, rest zero
  level,           \* db (in 1/1000 dB), bar_length, bar and spaces of it
  ioMsg,           \* message of the IOError last raised by the read
  ioSeen,          \* an IOError has been raised by the read
  ioRecovered      \* the last IOError was handled as a buffer overflow

sttVars == <<asr, init_called, constructs, calls, op, pc, path_exists,
             output_file, stream_started, consumed, final_segments, ret,
             raised, exc, write_failed, written>>
mainVars == <<mainPc, args, prompts, choice>>
micVars == <<micPc, handle, stream, exitKind, cleanup, micRet, frame, level,
             ioMsg, ioSeen, ioRecovered>>
vars == <<sttVars, mainVars, micVars>>

----------------------------------------------------------------------------
\* Bounds of the model

\* longest result stream one operation consumes
MaxEvents == 3
\* most operations invoked on one SpeechToText object
MaxCalls == 2

\* texts an event can carry
Texts == {"hello", "world"}

\* A result event: result['text'], result.get('final'), result.get('partial')
\* and whether result['chunk_info']['chunk_id'] is present (the integer itself
\* is only printed). The engine yields an event when it has a partial or a
\* final text for the chunk, so one of the two flags is set.
Events == {ev \in [text : Texts, final : BOOLEAN, partial : BOOLEAN,
                   has_chunk_id : BOOLEAN] : ev.partial \/ ev.final}

\* outcomes of `from streaming import StreamingASR; StreamingASR(...)`
InitOutcomes == {"ok", "ImportError", "OtherError"}

----------------------------------------------------------------------------
\* Return values

NoneVal == [kind |-> "None"]
NoReturn == [kind |-> "no_return"]
Results(text, segs) ==
  [kind |-> "results", transcription |-> text, segments |-> segs]
TextVal(text) == [kind |-> "text", text |-> text]

\* " ".join(segs)
RECURSIVE Join(_)
Join(segs) ==
  IF segs = <<>> THEN ""
  ELSE IF Len(segs) = 1 THEN segs[1]
  ELSE segs[1] \o " " \o Join(Tail(segs))

\* if result.get('final'): final_segments.append(result['text'])
AppendFinalDedup(segs, ev) ==
  IF ev.final /\ \A i \in 1..Len(segs) : segs[i] # ev.text
  THEN Append(segs, ev.text) ELSE segs
AppendFinal(segs, ev) ==
  IF ev.final THEN Append(segs, ev.text) ELSE segs

\* f"{chunk_info.get('chunk_id', '?'):3d}": the default '?' is a str, and the
\* format code d raises ValueError for it.
FormatRaises(ev) == ev.final /\ ~ev.has_chunk_id

----------------------------------------------------------------------------
\* initialize() and the lazy-construction guard

\* initialize(): only ImportError is caught; any other exception of the
\* import or of the constructor leaves initialize() and its caller.
Initialize(outcome) ==
  CASE outcome = "ok" ->
         [asr |-> "engine", constructed |-> TRUE, status |-> "ready"]
    [] outcome = "ImportError" ->
         [asr |-> "None", constructed |-> FALSE, status |-> "return_none"]
    [] OTHER ->
         [asr |-> "None", constructed |-> FALSE, status |-> "raise"]

\* if not self.asr and not self.initialize(): return None
EnsureEngine(asrv, outcome) ==
  IF asrv # "None"
  THEN [asr |-> asrv, constructed |-> FALSE, status |-> "ready",
        called |-> FALSE]
  ELSE [called |-> TRUE] @@ Initialize(outcome)

\* The part every operation shares: the engine guard applied to the object.
EngineStep(e) ==
  /\ asr' = e.asr
  /\ init_called' = e.called
  /\ constructs' = constructs + (IF e.constructed THEN 1 ELSE 0)

\* The operation ended before its loop: returned None or let `cls` escape.
EndEarly(cls, where) ==
  /\ pc' = "done"
  /\ ret' = IF cls = "none" THEN NoneVal ELSE NoReturn
  /\ raised' = cls
  /\ exc' = where
  /\ stream_started' = FALSE

\* The operation reached its for loop.
EnterLoop ==
  /\ pc' = "iter"
  /\ ret' = NoReturn
  /\ raised' = "none"
  /\ exc' = "none"
  /\ stream_started' = TRUE

\* Per-operation locals at the start of an operation.
FreshLocals(name, exists, out) ==
  /\ op' = name
  /\ calls' = calls + 1
  /\ path_exists' = exists
  /\ output_file' = out
  /\ consumed' = <<>>
  /\ final_segments' = <<>>
  /\ write_failed' = FALSE
  /\ written' = {}


----------------------------------------------------------------------------
\* The three operations up to their for loop

\* transcribe_file, lines 39-44: the path check, then the engine guard.
FilePrologueInitFirst(asrv, exists, outcome) ==
  LET e == EnsureEngine(asrv, outcome) IN
  IF e.status = "ready" /\ ~exists
  THEN [e EXCEPT !.status = "return_none"] ELSE e
FilePrologue(asrv, exists, outcome) ==
  IF ~exists
  THEN [asr |-> asrv, constructed |-> FALSE, status |-> "return_none",
        called |-> FALSE]
  ELSE EnsureEngine(asrv, outcome)

\* How an operation whose prologue produced e goes on; sdOutcome is what the
\* sounddevice steps after the engine guard did ("ok" for transcribe_file,
\* which has none).
AfterPrologue(e, sdOutcome) ==
  CASE e.status = "raise" -> EndEarly("Exception", "init")
    [] e.status = "return_none" ->
         EndEarly("none", IF e.called THEN "init" ELSE "none")
    [] e.status = "ready" /\ sdOutcome # "ok" -> EndEarly("none", "device")
    [] OTHER -> EnterLoop

TranscribeFile(exists, out, outcome) ==
  LET e == FilePrologue(asr, exists, outcome) IN
  /\ FreshLocals("file", exists, out)
  /\ EngineStep(e)
  /\ AfterPrologue(e, "ok")

\* outcomes of `import sounddevice` and of the device query of
\* transcribe_microphone; each failure prints and returns None
MicDeviceOutcomes == {"ok", "ImportError", "no_devices", "query_error"}
\* transcribe_live only imports sounddevice
LiveDeviceOutcomes == {"ok", "ImportError"}

TranscribeMicrophone(out, outcome, sdOutcome) ==
  LET e == EnsureEngine(asr, outcome) IN
  /\ FreshLocals("mic", TRUE, out)
  /\ EngineStep(e)
  /\ AfterPrologue(e, sdOutcome)

TranscribeLive(outcome, sdOutcome) ==
  LET e == EnsureEngine(asr, outcome) IN
  /\ FreshLocals("live", TRUE, "None")
  /\ EngineStep(e)
  /\ AfterPrologue(e, sdOutcome)

----------------------------------------------------------------------------
\* The for loop over the engine's result stream and what ends it

\* The operation finished from inside or after its loop.
Finish(value, cls, where, failed, files) ==
  /\ pc' = "done"
  /\ ret' = value
  /\ raised' = cls
  /\ exc' = where
  /\ write_failed' = failed
  /\ written' = files

\* One iteration of the loop body on event ev.
\* transcribe_file / transcribe_microphone: append a final text, then print
\* the numbered progress line, whose format raises for a missing chunk id
\* (caught by `except Exception`: return None).
\* transcribe_live: print the partial preview, append and print a final text.
LoopBody(ev) ==
  /\ consumed' = Append(consumed, ev)
  /\ final_segments' = AppendFinal(final_segments, ev)
  /\ IF op \in {"file", "mic"} /\ FormatRaises(ev)
     THEN Finish(NoneVal, "none", "format", FALSE, {})
     ELSE UNCHANGED <<pc, ret, raised, exc, write_failed, written>>

\* What transcribe_file / transcribe_microphone build after the loop.
CompleteResults(segs) == Results(Join(segs), segs)

\* The stream is exhausted.
\* file / mic: join, fill the results, save them when output_file is truthy
\* (a failing open or dump is caught by `except Exception`), return results.
\* live: the function has no statement after the try: it returns None.
LoopEnd(writeOk) ==
  IF op = "live"
  THEN Finish(NoneVal, "none", "none", FALSE, {})
  ELSE
    LET results == CompleteResults(final_segments) IN
    IF output_file = "None"
    THEN Finish(results, "none", "none", FALSE, {})
    ELSE IF writeOk
    THEN Finish(results, "none", "none", FALSE,
                {[name |-> output_file, content |-> results]})
    ELSE Finish(NoneVal, "none", "write", TRUE, {})

\* The stream raises an exception of class Exception.
\* file / mic: `except Exception`: print, return None.
\* live: the try has only `except KeyboardInterrupt`: the exception escapes.
LoopRaise ==
  IF op = "live"
  THEN Finish(NoReturn, "Exception", "stream", FALSE, {})
  ELSE Finish(NoneVal, "none", "stream", FALSE, {})

\* KeyboardInterrupt arrives during the iteration.
\* file: KeyboardInterrupt is no Exception: it escapes.
\* mic: `except KeyboardInterrupt`: print, return None.
\* live: join and save the final segments when there are any and return the
\* text (a failing open lets OSError escape the handler); else return None.
LoopInterrupt(writeOk) ==
  CASE op = "file" ->
         Finish(NoReturn, "KeyboardInterrupt", "KeyboardInterrupt", FALSE, {})
    [] op = "mic" ->
         Finish(NoneVal, "none", "KeyboardInterrupt", FALSE, {})
    [] OTHER ->
         IF final_segments = <<>>
         THEN Finish(NoneVal, "none", "KeyboardInterrupt", FALSE, {})
         ELSE IF writeOk
         THEN Finish(TextVal(Join(final_segments)), "none",
                     "KeyboardInterrupt", FALSE,
                     {[name |-> "transcription_<timestamp>.txt",
                       content |-> TextVal(Join(final_segments))]})
         ELSE Finish(NoReturn, "Exception", "KeyboardInterrupt", TRUE, {})

objVars == <<asr, init_called, constructs, calls, op, path_exists,
             output_file, stream_started>>

StreamNext ==
  /\ pc = "iter"
  /\ Len(consumed) < MaxEvents
  /\ \E ev \in Events : LoopBody(ev)
  /\ UNCHANGED <<objVars, mainVars, micVars>>

StreamEnd ==
  /\ pc = "iter"
  /\ \E writeOk \in BOOLEAN : LoopEnd(writeOk)
  /\ UNCHANGED <<objVars, consumed, final_segments, mainVars, micVars>>

StreamRaise ==
  /\ pc = "iter"
  /\ LoopRaise
  /\ UNCHANGED <<objVars, consumed, final_segments, mainVars, micVars>>

Interrupt ==
  /\ pc = "iter"
  /\ \E writeOk \in BOOLEAN : LoopInterrupt(writeOk)
  /\ UNCHANGED <<objVars, consumed, final_segments, mainVars, micVars>>

----------------------------------------------------------------------------
\* Spec: the object used directly, one operation after another

CallTranscribeFile ==
  /\ mainPc = "off" /\ pc = "idle" /\ calls < MaxCalls
  /\ \E exists \in BOOLEAN, out \in {"None", "out.json"},
        outcome \in InitOutcomes :
       TranscribeFile(exists, out, outcome)
  /\ UNCHANGED <<mainVars, micVars>>

CallTranscribeMicrophone ==
  /\ mainPc = "off" /\ pc = "idle" /\ calls < MaxCalls
  /\ \E out \in {"None", "out.json"}, outcome \in InitOutcomes,
        sdOutcome \in MicDeviceOutcomes :
       TranscribeMicrophone(out, outcome, sdOutcome)
  /\ UNCHANGED <<mainVars, micVars>>

CallTranscribeLive ==
  /\ mainPc = "off" /\ pc = "idle" /\ calls < MaxCalls
  /\ \E outcome \in InitOutcomes, sdOutcome \in LiveDeviceOutcomes :
       TranscribeLive(outcome, sdOutcome)
  /\ UNCHANGED <<mainVars, micVars>>

\* The caller has the operation's result (or its exception) and may call
\* again; the finished operation's locals are gone.
Return ==
  /\ mainPc = "off" /\ pc = "done"
  /\ pc' = "idle"
  /\ op' = "none"
  /\ path_exists' = TRUE
  /\ output_file' = "None"
  /\ stream_started' = FALSE
  /\ init_called' = FALSE
  /\ consumed' = <<>>
  /\ final_segments' = <<>>
  /\ ret' = NoReturn
  /\ raised' = "none"
  /\ exc' = "none"
  /\ write_failed' = FALSE
  /\ written' = {}
  /\ UNCHANGED <<asr, constructs, calls, mainVars, micVars>>

\* SpeechToText.__init__: self.asr = None, nothing constructed yet.
ObjInit ==
  /\ asr = "None"
  /\ init_called = FALSE
  /\ constructs = 0
  /\ calls = 0
  /\ op = "none"
  /\ pc = "idle"
  /\ path_exists = TRUE
  /\ output_file = "None"
  /\ stream_started = FALSE
  /\ consumed = <<>>
  /\ final_segments = <<>>
  /\ ret = NoReturn
  /\ raised = "none"
  /\ exc = "none"
  /\ write_failed = FALSE
  /\ written = {}

\* args before parse_args() has run
NoArgs == [file |-> "unset", mic |-> FALSE, live |-> FALSE]

MainOff ==
  /\ mainPc = "off"
  /\ args = NoArgs
  /\ prompts = 0
  /\ choice = ""

NoFrame == [v |-> 0, n |-> 0]
NoLevel == [db |-> 0, bar_length |-> 0, bar |-> 0, spaces |-> 0]
NoCleanup == [stop |-> FALSE, close |-> FALSE, terminate |-> FALSE]

\* The locals of test_microphone() before it runs.
MicLocals ==
  /\ handle = "none"
  /\ stream = "unbound"
  /\ exitKind = "none"
  /\ cleanup = NoCleanup
  /\ micRet = "none"
  /\ frame = NoFrame
  /\ level = NoLevel
  /\ ioMsg = <<>>
  /\ ioSeen = FALSE
  /\ ioRecovered = FALSE

MicOff == micPc = "off" /\ MicLocals

Init == ObjInit /\ MainOff /\ MicOff

Next ==
  \/ CallTranscribeFile
  \/ CallTranscribeMicrophone
  \/ CallTranscribeLive
  \/ StreamNext
  \/ StreamEnd
  \/ StreamRaise
  \/ Interrupt
  \/ Return

Spec == Init /\ [][Next]_vars

----------------------------------------------------------------------------
\* MainSpec: one run of main()

\* values of args.file: absent, the empty string (falsy), a path
FileArgs == {"None", "", "audio.wav"}
\* what the user types at "Enter choice (1-3): " (after strip())
Choices == {"1", "2", "3", "0", "4", ""}
\* the numeric ones among them that the menu does not offer
UnrecognizedNumeric == {"0", "4"}
\* what the user types at the duration prompt: "" (default "10"), a number,
\* something int() rejects
Durations == {"", "15", "abc"}

\* main() has run to its end, or an exception left it.
MainEnds(how) ==
  /\ mainPc' = how
  /\ UNCHANGED sttVars

\* The else branch of the menu, lines 273-274: print "Invalid choice";
\* main() ends there.
InvalidChoiceReprompts ==
  /\ mainPc' = "menu"
  /\ UNCHANGED sttVars
InvalidChoice == MainEnds("exit")

\* Lines 233-257: build the object, dispatch on the flags; with none of them
\* truthy print the menu and wait for the choice.
MainDispatch ==
  /\ mainPc = "start"
  /\ UNCHANGED <<prompts, choice, micVars>>
  /\ \E file \in FileArgs, mic \in BOOLEAN, live \in BOOLEAN,
        out \in {"None", "out.json"}, exists \in BOOLEAN,
        outcome \in InitOutcomes, sdOutcome \in MicDeviceOutcomes :
       /\ args' = [file |-> file, mic |-> mic, live |-> live]
       /\ CASE file \notin {"None", ""} ->
              /\ TranscribeFile(exists, out, outcome)
              /\ mainPc' = "running"
         [] file \in {"None", ""} /\ mic ->
              /\ TranscribeMicrophone(out, outcome, sdOutcome)
              /\ mainPc' = "running"
         [] file \in {"None", ""} /\ ~mic /\ live ->
              /\ sdOutcome \in LiveDeviceOutcomes
              /\ TranscribeLive(outcome, sdOutcome)
              /\ mainPc' = "running"
         [] OTHER ->
              /\ mainPc' = "menu"
              /\ UNCHANGED sttVars

\* Lines 257-274: read the choice and act on it.
\* "1": read a path; transcribe_file(path) when it exists, else print.
\* "2": read the duration (int() may raise ValueError, which leaves main());
\*      transcribe_microphone(duration).
\* "3": transcribe_live().   anything else: InvalidChoice.
MenuChoice ==
  /\ mainPc = "menu"
  /\ prompts' = prompts + 1
  /\ UNCHANGED <<args, micVars>>
  /\ \E c \in Choices, exists \in BOOLEAN, dur \in Durations,
        outcome \in InitOutcomes, sdOutcome \in MicDeviceOutcomes :
       /\ choice' = c
       /\ CASE c = "1" ->
                 IF exists
                 THEN /\ TranscribeFile(TRUE, "None", outcome)
                      /\ mainPc' = "running"
                 ELSE MainEnds("exit")
            [] c = "2" ->
                 IF dur = "abc"
                 THEN MainEnds("crashed")
                 ELSE /\ TranscribeMicrophone("None", outcome, sdOutcome)
                      /\ mainPc' = "running"
            [] c = "3" ->
                 /\ sdOutcome \in LiveDeviceOutcomes
                 /\ TranscribeLive(outcome, sdOutcome)
                 /\ mainPc' = "running"
            [] OTHER -> InvalidChoice

\* The operation main() called is over: main() has nothing after it and
\* ends, or the operation's exception leaves main() too.
MainReturn ==
  /\ mainPc = "running" /\ pc = "done"
  /\ mainPc' = IF raised = "none" THEN "exit" ELSE "crashed"
  /\ UNCHANGED <<sttVars, args, prompts, choice, micVars>>

MainInit ==
  /\ ObjInit
  /\ MicOff
  /\ mainPc = "start"
  /\ args = NoArgs
  /\ prompts = 0
  /\ choice = ""

MainNext ==
  \/ MainDispatch
  \/ MenuChoice
  \/ StreamNext
  \/ StreamEnd
  \/ StreamRaise
  \/ Interrupt
  \/ MainReturn

MainSpec == MainInit /\ [][MainNext]_vars

----------------------------------------------------------------------------
\* MicSpec: one run of test_microphone()

\* frames_per_buffer and the number of samples read per frame
CHUNK == 1024
\* the divisor of the dB formula
FullScale == 32768
\* the widest bar
BarWidth == 50
\* the level reported when rms > 0 is false, in dB
QuietDb == -60

\* most pieces an IOError message is made of
MaxMsgParts == 2

\* Sample values and the number of samples of a frame that carry the value
\* (the others are 0).
SampleValues == {0, 1, 3, 100, 181, 200, 1000, 32767, -32768}
SampleCounts == {1, 16, CHUNK}

\* An IOError message is a sequence of pieces; the piece "Input overflow" is
\* the substring the handler looks for, and no other piece (nor a junction
\* of pieces) contains it.
Needle == "Input overflow"
MsgParts == {Needle, "[Errno -9981] ", "Unanticipated host error"}
RECURSIVE SeqsUpTo(_, _)
SeqsUpTo(S, k) ==
  IF k = 0 THEN {<<>>}
  ELSE LET shorter == SeqsUpTo(S, k - 1) IN
       shorter \cup {Append(m, x) : m \in shorter, x \in S}
Messages == SeqsUpTo(MsgParts, MaxMsgParts) \ {<<>>}

Min(a, b) == IF a < b THEN a ELSE b
Max(a, b) == IF a > b THEN a ELSE b
\* int(x) of a float x = a / b (b > 0): truncation toward zero
TruncDiv(a, b) == IF a >= 0 THEN a \div b ELSE -((-a) \div b)

RECURSIVE Pow2(_)
Pow2(k) == IF k = 0 THEN 1 ELSE 2 * Pow2(k - 1)

\* np.square on an int16 array: the product is reduced to 16 bits, two's
\* complement.
Square16(v) ==
  LET low == (v * v) % 65536 IN
  IF low >= 32768 THEN low - 65536 ELSE low

\* np.mean(...) * CHUNK of the squared frame: the sum of the squares
SumSquares(f) == f.n * Square16(f.v)

\* log2(n) for n >= 1 in units of 1/1024, by the shift-and-square method on
\* a mantissa of 14 fraction bits (error below 0.002).
RECURSIVE FloorLog2(_)
FloorLog2(n) == IF n < 2 THEN 0 ELSE 1 + FloorLog2(n \div 2)
RECURSIVE FracLog2(_, _)
FracLog2(m, k) ==
  IF k = 0 THEN 0
  ELSE LET sq == (m * m) \div 16384 IN
       IF sq >= 32768
       THEN Pow2(k - 1) + FracLog2(sq \div 2, k - 1)
       ELSE FracLog2(sq, k - 1)
Log2Milli(n) ==
  LET e == FloorLog2(n)
      m == IF e <= 14 THEN n * Pow2(14 - e) ELSE n \div Pow2(e - 14)
  IN  e * 1024 + FracLog2(m, 10)

\* 20 * np.log10(rms / 32768 * 100 + 1e-10) in 1/1000 dB, for
\* rms = sqrt(sumsq / CHUNK) > 0.  In powers of two, CHUNK = 2^10 and
\* 32768^2 = 2^30, so the level is 10*log10(2) * (log2(sumsq) - 40) + 40 dB,
\* 10*log10(2) = 3.0103.  The 1e-10 moves the result by less than 1e-5 dB
\* for every sumsq >= 1 and is left out.
DbOfRms(sumsq) ==
  ((Log2Milli(sumsq) - 40 * 1024) * 30103) \div 10240 + 40000

\* Lines 62-74 on frame f: rms, db, bar_length, bar, spaces.  The mean of
\* the wrapped squares can be negative; its square root is then nan, and
\* `rms > 0` is false for nan as it is for 0.
LevelOf(f) ==
  LET sumsq == SumSquares(f)
      db == IF sumsq > 0 THEN DbOfRms(sumsq) ELSE QuietDb * 1000
      bar_length == Min(TruncDiv((db + 60000) * 2, 1000), BarWidth)
  IN  [db |-> db, bar_length |-> bar_length,
       bar |-> Max(bar_length, 0),
       spaces |-> Max(BarWidth - bar_length, 0)]

\* str(e).find('Input overflow'): the index of the first occurrence, -1
\* when there is none.
PartLen(part) ==
  CASE part = Needle -> 14
    [] part = "[Errno -9981] " -> 14
    [] OTHER -> 24
RECURSIVE Find(_)
Find(msg) ==
  IF msg = <<>> THEN -1
  ELSE IF Head(msg) = Needle THEN 0
  ELSE LET rest == Find(Tail(msg)) IN
       IF rest = -1 THEN -1 ELSE PartLen(Head(msg)) + rest

\* `if str(e).find('Input overflow'):`: an int is true unless it is 0.
IsOverflow(msg) == Find(msg) # 0

\* Line 26: p = pyaudio.PyAudio(), outside the try.
MicStart ==
  /\ micPc = "start"
  /\ \E ok \in BOOLEAN :
       IF ok
       THEN /\ micPc' = "enum"
            /\ handle' = "created"
            /\ UNCHANGED exitKind
       ELSE /\ micPc' = "propagated"
            /\ exitKind' = "error"
            /\ UNCHANGED handle
  /\ UNCHANGED <<stream, cleanup, micRet, frame, level, ioMsg, ioSeen,
                 ioRecovered, sttVars, mainVars>>

\* The outer try is left for its finally block.
LeaveTry(kind) ==
  /\ micPc' = "finally"
  /\ exitKind' = kind

\* Lines 30-38: list the input devices.  An Exception goes to
\* `except Exception`; a KeyboardInterrupt is caught by nothing here.
Enumerate ==
  /\ micPc = "enum"
  /\ \E outcome \in {"ok", "error", "interrupt"} :
       IF outcome = "ok"
       THEN micPc' = "open" /\ UNCHANGED exitKind
       ELSE LeaveTry(outcome)
  /\ UNCHANGED <<handle, stream, cleanup, micRet, frame, level, ioMsg,
                 ioSeen, ioRecovered, sttVars, mainVars>>

\* Lines 41-51: stream = p.open(...); `stream` is bound only when it returns.
OpenStream ==
  /\ micPc = "open"
  /\ \E outcome \in {"ok", "error", "interrupt"} :
       IF outcome = "ok"
       THEN micPc' = "loop" /\ stream' = "open" /\ UNCHANGED exitKind
       ELSE LeaveTry(outcome) /\ UNCHANGED stream
  /\ UNCHANGED <<handle, cleanup, micRet, frame, level, ioMsg, ioSeen,
                 ioRecovered, sttVars, mainVars>>

\* Lines 56-80: one frame read, measured and displayed.
ReadFrame ==
  /\ micPc = "loop"
  /\ \E v \in SampleValues, n \in SampleCounts :
       LET f == [v |-> v, n |-> n] IN
       /\ frame' = f
       /\ level' = LevelOf(f)
  /\ UNCHANGED <<micPc, handle, stream, exitKind, cleanup, micRet, ioMsg,
                 ioSeen, ioRecovered, sttVars, mainVars>>

\* Lines 82-88: the read raises IOError(msg).  When the test of line 83 is
\* true: warn, sleep, continue; else re-raise, which `except Exception` of
\* the outer try catches.
ReadIOError ==
  /\ micPc = "loop"
  /\ \E msg \in Messages :
       /\ ioMsg' = msg
       /\ ioSeen' = TRUE
       /\ ioRecovered' = IsOverflow(msg)
       /\ IF IsOverflow(msg)
          THEN micPc' = "pause" /\ UNCHANGED exitKind
          ELSE LeaveTry("error")
  /\ UNCHANGED <<handle, stream, cleanup, micRet, frame, level, sttVars,
                 mainVars>>

\* time.sleep(0.1) of line 85 returns and the loop continues, or Ctrl+C
\* arrives during it: inside the handler no `except KeyboardInterrupt`
\* applies, and the outer try has none.
Pause ==
  /\ micPc = "pause"
  /\ \E interrupted \in BOOLEAN :
       IF interrupted
       THEN LeaveTry("interrupt")
       ELSE micPc' = "loop" /\ UNCHANGED exitKind
  /\ UNCHANGED <<handle, stream, cleanup, micRet, frame, level, ioMsg,
                 ioSeen, ioRecovered, sttVars, mainVars>>

\* An exception other than IOError in the loop body: `except Exception`.
ReadOtherError ==
  /\ micPc = "loop"
  /\ LeaveTry("error")
  /\ UNCHANGED <<handle, stream, cleanup, micRet, frame, level, ioMsg,
                 ioSeen, ioRecovered, sttVars, mainVars>>

\* Lines 89-90: Ctrl+C in the loop body: break.
ReadInterrupt ==
  /\ micPc = "loop"
  /\ LeaveTry("break")
  /\ UNCHANGED <<handle, stream, cleanup, micRet, frame, level, ioMsg,
                 ioSeen, ioRecovered, sttVars, mainVars>>

\* Lines 97-103: the release calls in their order inside one try whose
\* `except: pass` swallows the first failure and skips the calls after it.
Release(bound, stopOk, closeOk) ==
  IF bound
  THEN [stop |-> TRUE, close |-> stopOk, terminate |-> stopOk /\ closeOk]
  ELSE [stop |-> FALSE, close |-> FALSE, terminate |-> TRUE]

\* Lines 92-106: the finally block, then what the way out of the try
\* decides: return True after a break, return False after a caught
\* Exception, the KeyboardInterrupt going on to the caller otherwise.
Finally ==
  /\ micPc = "finally"
  /\ \E stopOk \in BOOLEAN, closeOk \in BOOLEAN :
       cleanup' = Release(stream = "open", stopOk, closeOk)
  /\ micPc' = IF exitKind = "interrupt" THEN "propagated" ELSE "returned"
  /\ micRet' = CASE exitKind = "break" -> "True"
                 [] exitKind = "error" -> "False"
                 [] OTHER -> "none"
  /\ UNCHANGED <<handle, stream, exitKind, frame, level, ioMsg, ioSeen,
                 ioRecovered, sttVars, mainVars>>

MicInit ==
  /\ ObjInit
  /\ MainOff
  /\ micPc = "start"
  /\ MicLocals

MicNext ==
  \/ MicStart
  \/ Enumerate
  \/ OpenStream
  \/ ReadFrame
  \/ ReadIOError
  \/ Pause
  \/ ReadOtherError
  \/ ReadInterrupt
  \/ Finally

MicSpec == MicInit /\ [][MicNext]_vars

----------------------------------------------------------------------------
\* Properties of the orchestrator operations (specification Spec)

IsFinal(ev) == ev.final
TextsOf(evs) == [i \in 1..Len(evs) |-> evs[i].text]

\* C1: when transcribe_file or transcribe_microphone has consumed its whole
\* result stream and no exception arose while it did, the returned segments
\* are exactly the texts of the events whose final flag is true, in emission
\* order (nothing reordered, nothing deduplicated, no partial-only event),
\* and the transcription is these texts joined with single spaces; with no
\* final event the transcription is "" and the segments are the empty list.
C1_FinalsInOrder ==
  (pc = "done" /\ op \in {"file", "mic"} /\ stream_started /\ exc = "none")
    => LET finals == TextsOf(SelectSeq(consumed, IsFinal)) IN
       /\ raised = "none"
       /\ ret.kind = "results"
       /\ ret.segments = finals
       /\ ret.transcription = Join(finals)
       /\ finals = <<>> => (ret.transcription = "" /\ ret.segments = <<>>)
       /\ Len(finals) = 1 => ret.transcription = finals[1]
       /\ Len(finals) = 2 =>
            ret.transcription = finals[1] \o " " \o finals[2]

\* A finished transcribe_file whose stream was final, partial-only, final,
\* the two finals carrying the same text: both are returned.
C1_Witness ==
  /\ pc = "done" /\ op = "file" /\ exc = "none"
  /\ Len(consumed) = 3
  /\ consumed[1].final /\ ~consumed[2].final /\ consumed[3].final
  /\ consumed[1].text = consumed[3].text
  /\ ret.kind = "results"
  /\ Len(ret.segments) = 2

\* C2: in transcribe_file, transcribe_microphone and transcribe_live alike,
\* an exception raised by the result stream is caught inside the operation,
\* which returns None and lets nothing escape to its caller.
C2_StreamErrorCaught ==
  (pc = "done" /\ exc = "stream") => (ret = NoneVal /\ raised = "none")

\* C3: a KeyboardInterrupt during the iteration never leaves the operation,
\* and the final segments accumulated so far are joined with single spaces
\* and saved; in live mode the joined text is written to the
\* timestamp-named text file and returned, or None is returned and nothing
\* written when no final segment was accumulated.
C3_InterruptSaves ==
  (pc = "done" /\ exc = "KeyboardInterrupt" /\ ~write_failed)
    => LET text == Join(final_segments) IN
       /\ raised = "none"
       /\ final_segments # <<>> =>
            \E f \in written :
              \/ f.content.kind = "text" /\ f.content.text = text
              \/ f.content.kind = "results"
                   /\ f.content.transcription = text
       /\ op = "live" =>
            IF final_segments = <<>>
            THEN ret = NoneVal /\ written = {}
            ELSE /\ ret = TextVal(text)
                 /\ written = {[name |-> "transcription_<timestamp>.txt",
                                content |-> TextVal(text)]}

\* C4: a transcribe_file call on a path that does not exist returns None at
\* once: self.asr is what it was, initialize() is not called, nothing is
\* constructed, the stream is not started and no file is written.
C4_MissingFile ==
  [][(pc = "idle" /\ pc' = "done" /\ op' = "file" /\ ~path_exists')
       => /\ ret' = NoneVal
          /\ raised' = "none"
          /\ asr' = asr
          /\ ~init_called'
          /\ constructs' = constructs
          /\ ~stream_started'
          /\ written' = {}]_vars

\* transcribe_file returned None for a missing path on an object that has no
\* engine yet, and still has none.
C4_Witness ==
  /\ pc = "done" /\ op = "file" /\ ~path_exists
  /\ ret = NoneVal
  /\ asr = "None" /\ ~init_called

\* C5: the engine is constructed only inside an operation, at most once over
\* any sequence of operations, and an operation whose initialize() fails
\* (the import fails or the constructor raises) returns None, lets nothing
\* escape, leaves self.asr None and never starts the stream.
C5_LazyOnceGraceful ==
  /\ constructs <= 1
  /\ (asr = "None") <=> (constructs = 0)
  /\ (pc = "done" /\ exc = "init")
       => (ret = NoneVal /\ raised = "none" /\ asr = "None"
           /\ ~stream_started)

----------------------------------------------------------------------------
\* Properties of the dispatcher (specification MainSpec)

\* C8: with none of the file, microphone and live flags given main() enters
\* the interactive menu, and it does not end on an unrecognized choice: the
\* menu asks again until a recognized choice 1, 2 or 3 is entered.
C8_MenuReprompts ==
  /\ (args.file # "unset" /\ args.file \in {"None", ""} /\ ~args.mic /\ ~args.live)
       => (mainPc = "menu" \/ prompts > 0)
  /\ ~(mainPc = "exit" /\ prompts > 0 /\ choice \in UnrecognizedNumeric)

\* C8 as amended: with none of the three flags given main() enters the
\* interactive menu (and only then); the menu asks for the choice once; an
\* unrecognized choice ends main() with no orchestrator operation called,
\* and no run of main() calls more than one operation.
C8_MenuAsksOnce ==
  /\ args.file # "unset" =>
       ((args.file \in {"None", ""} /\ ~args.mic /\ ~args.live)
          <=> (mainPc = "menu" \/ prompts > 0))
  /\ prompts <= 1
  /\ calls <= 1
  /\ mainPc = "menu" => (calls = 0 /\ pc = "idle")
  /\ (prompts = 1 /\ choice \notin {"1", "2", "3"})
       => (mainPc = "exit" /\ calls = 0 /\ pc = "idle" /\ ret = NoReturn)

\* main() ended after the unrecognized choice "4".
C8_Witness ==
  mainPc = "exit" /\ prompts = 1 /\ choice = "4" /\ calls = 0

----------------------------------------------------------------------------
\* Properties of the microphone diagnostic (specification MicSpec)

RECURSIVE Contains(_)
Contains(msg) ==
  msg # <<>> /\ (Head(msg) = Needle \/ Contains(Tail(msg)))

\* C6: a read error is handled as recoverable (warn, pause, read on) exactly
\* when its message contains 'Input overflow'; any other read error is
\* re-raised and makes test_microphone return False.
C6_OverflowOnlyRecovered ==
  ioSeen =>
    /\ ioRecovered <=> Contains(ioMsg)
    /\ (~Contains(ioMsg) /\ micPc = "returned") => micRet = "False"

\* C7: whenever test_microphone is left after the audio handle was created,
\* p.terminate() has been called and the stream, if one was opened, has been
\* stopped and closed, also when stop_stream or close fails.
C7_AlwaysReleased ==
  (micPc \in {"returned", "propagated"} /\ handle = "created")
    => /\ cleanup.terminate
       /\ stream = "open" => (cleanup.stop /\ cleanup.close)

\* C9: a frame of 1024 samples 32767 is reported at about 40 dB with the bar
\* clipped to 50; an all-zero frame at exactly -60 dB with a bar of 0.
C9_FullScaleAndSilence ==
  /\ frame = [v |-> 32767, n |-> CHUNK]
       => (level.db >= 39500 /\ level.db <= 40500 /\ level.bar_length = 50)
  /\ (frame.n > 0 /\ frame.v = 0)
       => (level.db = -60000 /\ level.bar_length = 0)

\* C10: for every frame read the meter is 50 characters wide: between 0 and
\* 50 bar characters, bar plus padding exactly 50.
C10_MeterWidth ==
  frame.n > 0 =>
    /\ level.bar >= 0 /\ level.bar <= BarWidth
    /\ level.bar + level.spaces = BarWidth

=============================================================================
